---- MODULE Spec2Model ----
(***************************************************************************)
(* A model of optimize.py: NutritionVector, Product and optimize().  The   *)
(* program computes in Python floats (IEEE-754 binary64), so the numbers   *)
(* of the model are binary64 values with round-to-nearest-even, held as a  *)
(* sign, a 53-bit significand and an exponent.  A significand does not fit *)
(* a TLC integer, so it is held as a little-endian sequence of 15-bit      *)
(* limbs.                                                                  *)
(***************************************************************************)
EXTENDS Integers, Sequences, FiniteSets, TLC

(***************************************************************************)
(* Natural numbers of any size: little-endian limb sequences, no leading   *)
(* zero limb, <<>> is 0.                                                   *)
(***************************************************************************)
Base == 2^15

RECURSIVE BNorm(_)
BNorm(a) ==
    IF a = <<>> THEN <<>>
    ELSE IF a[Len(a)] = 0 THEN BNorm(SubSeq(a, 1, Len(a) - 1)) ELSE a

RECURSIVE BFromNat(_)
BFromNat(n) == IF n = 0 THEN <<>> ELSE <<n % Base>> \o BFromNat(n \div Base)

Limb(a, i) == IF i <= Len(a) THEN a[i] ELSE 0

RECURSIVE BAddC(_, _, _, _)
BAddC(a, b, i, c) ==
    IF i > Len(a) /\ i > Len(b)
    THEN (IF c = 0 THEN <<>> ELSE <<c>>)
    ELSE LET s == Limb(a, i) + Limb(b, i) + c
         IN  <<s % Base>> \o BAddC(a, b, i + 1, s \div Base)

BAdd(a, b) == BAddC(a, b, 1, 0)

\* a - b for a >= b
RECURSIVE BSubC(_, _, _, _)
BSubC(a, b, i, c) ==
    IF i > Len(a) THEN <<>>
    ELSE LET s == a[i] - Limb(b, i) - c
         IN  IF s < 0 THEN <<s + Base>> \o BSubC(a, b, i + 1, 1)
                      ELSE <<s>> \o BSubC(a, b, i + 1, 0)

BSub(a, b) == BNorm(BSubC(a, b, 1, 0))

\* a * d for 0 <= d <= Base
RECURSIVE BMulSmallC(_, _, _, _)
BMulSmallC(a, d, i, c) ==
    IF i > Len(a) THEN BFromNat(c)
    ELSE LET s == a[i] * d + c
         IN  <<s % Base>> \o BMulSmallC(a, d, i + 1, s \div Base)

BMulSmall(a, d) == IF d = 0 THEN <<>> ELSE BMulSmallC(a, d, 1, 0)

ShiftLimbs(a, n) == IF a = <<>> THEN <<>> ELSE [i \in 1..n |-> 0] \o a

RECURSIVE BMul(_, _)
BMul(a, b) ==
    IF b = <<>> THEN <<>>
    ELSE BAdd(BMulSmall(a, Head(b)), ShiftLimbs(BMul(a, Tail(b)), 1))

\* -1, 0, 1 as a < b, a = b, a > b
RECURSIVE BCmpFrom(_, _, _)
BCmpFrom(a, b, i) ==
    IF i = 0 THEN 0
    ELSE IF a[i] < b[i] THEN -1
    ELSE IF a[i] > b[i] THEN 1
    ELSE BCmpFrom(a, b, i - 1)

BCmp(a, b) ==
    IF Len(a) < Len(b) THEN -1
    ELSE IF Len(a) > Len(b) THEN 1
    ELSE BCmpFrom(a, b, Len(a))

RECURSIVE NatBits(_)
NatBits(n) == IF n = 0 THEN 0 ELSE 1 + NatBits(n \div 2)

BitLen(a) == IF a = <<>> THEN 0 ELSE 15 * (Len(a) - 1) + NatBits(a[Len(a)])

BShl(a, k) == BMulSmall(ShiftLimbs(a, k \div 15), 2^(k % 15))

\* floor(a / d) for 1 <= d <= Base, from the top limb down
RECURSIVE BDivSmallC(_, _, _, _)
BDivSmallC(a, d, i, r) ==
    IF i = 0 THEN <<>>
    ELSE LET s == r * Base + a[i]
         IN  BDivSmallC(a, d, i - 1, s % d) \o <<s \div d>>

BDivSmall(a, d) == BNorm(BDivSmallC(a, d, Len(a), 0))

\* floor(a / 2^k)
BShr(a, k) ==
    LET q == k \div 15
    IN  IF q >= Len(a) THEN <<>>
        ELSE BDivSmall(SubSeq(a, q + 1, Len(a)), 2^(k % 15))

BOdd(a) == a # <<>> /\ a[1] % 2 = 1

\* 15 steps of binary long division of r * 2^15 by d, for r < d: <<quotient limb, remainder>>
RECURSIVE BDivStep(_, _, _, _)
BDivStep(q, r, d, k) ==
    IF k = 0 THEN <<q, r>>
    ELSE LET r2 == BAdd(r, r)
         IN  IF BCmp(r2, d) >= 0
             THEN BDivStep(2 * q + 1, BSub(r2, d), d, k - 1)
             ELSE BDivStep(2 * q, r2, d, k - 1)

\* <<floor(r * Base^n / d), remainder>> for r < d
RECURSIVE BDivLimbs(_, _, _)
BDivLimbs(r, d, n) ==
    IF n = 0 THEN <<<<>>, r>>
    ELSE LET st   == BDivStep(0, r, d, 15)
             rest == BDivLimbs(st[2], d, n - 1)
         IN  <<rest[1] \o <<st[1]>>, rest[2]>>

(***************************************************************************)
(* Python floats.  A value is [s, m, e] and stands for s * m * 2^e: s is   *)
(* the sign (0 exactly for zero), m the significand with exactly Precision *)
(* bits.  The inputs of the model keep every exponent far inside the       *)
(* binary64 range, so no operation overflows to inf or underflows.         *)
(***************************************************************************)
Precision == 53

Zero == [s |-> 0, m |-> <<>>, e |-> 0]

\* the float nearest to sign * n * 2^e, ties to even
RoundF(sign, n, e) ==
    IF n = <<>> THEN Zero
    ELSE LET len == BitLen(n)
         IN  IF len <= Precision
             THEN [s |-> sign, m |-> BShl(n, Precision - len), e |-> e - (Precision - len)]
             ELSE LET k    == len - Precision
                      t    == BShr(n, k - 1)
                      q    == BShr(t, 1)
                      half == BOdd(t)
                      rest == BShl(t, k - 1) # n
                      up   == half /\ (rest \/ BOdd(q))
                      r    == IF up THEN BAdd(q, <<1>>) ELSE q
                  IN  IF BitLen(r) > Precision
                      THEN [s |-> sign, m |-> BShr(r, 1), e |-> e + k + 1]
                      ELSE [s |-> sign, m |-> r, e |-> e + k]

Sgn(i) == IF i < 0 THEN -1 ELSE IF i > 0 THEN 1 ELSE 0
Abs(i) == IF i < 0 THEN -i ELSE i

\* float(i) of a Python int
FromInt(i) == RoundF(Sgn(i), BFromNat(Abs(i)), 0)

\* a * b
FMul(a, b) ==
    IF a.s = 0 \/ b.s = 0 THEN Zero
    ELSE RoundF(a.s * b.s, BMul(a.m, b.m), a.e + b.e)

\* a + b
FAdd(a, b) ==
    IF a.s = 0 THEN b
    ELSE IF b.s = 0 THEN a
    ELSE LET e  == IF a.e < b.e THEN a.e ELSE b.e
             am == BShl(a.m, a.e - e)
             bm == BShl(b.m, b.e - e)
             c  == BCmp(am, bm)
         IN  IF a.s = b.s THEN RoundF(a.s, BAdd(am, bm), e)
             ELSE IF c = 0 THEN Zero
             ELSE IF c > 0 THEN RoundF(a.s, BSub(am, bm), e)
             ELSE RoundF(b.s, BSub(bm, am), e)

\* a / b for b # 0 (Python raises ZeroDivisionError for b = 0: the callers test it).
\* The quotient of the significands is taken to 4 limbs and a sticky bit, then rounded.
FDiv(a, b) ==
    IF a.s = 0 THEN Zero
    ELSE LET ge == BCmp(a.m, b.m) >= 0
             qr == BDivLimbs(IF ge THEN BSub(a.m, b.m) ELSE a.m, b.m, 4)
             q  == BNorm(qr[1] \o (IF ge THEN <<1>> ELSE <<>>))
             n  == BAdd(BAdd(q, q), IF qr[2] # <<>> THEN <<1>> ELSE <<>>)
         IN  RoundF(a.s * b.s, n, a.e - b.e - 61)

\* a < b
FLt(a, b) ==
    IF a.s # b.s THEN a.s < b.s
    ELSE IF a.s = 0 THEN FALSE
    ELSE LET c == IF a.e # b.e THEN (IF a.e < b.e THEN -1 ELSE 1) ELSE BCmp(a.m, b.m)
         IN  IF a.s = 1 THEN c < 0 ELSE c > 0

FLe(a, b) == a = b \/ FLt(a, b)

\* the nearest integer, ties to even (numpy.rint)
FRint(a) ==
    IF a.s = 0 \/ a.e >= 0 THEN a
    ELSE LET k    == -a.e
             t    == BShr(a.m, k - 1)
             q    == BShr(t, 1)
             half == BOdd(t)
             rest == BShl(t, k - 1) # a.m
             up   == half /\ (rest \/ BOdd(q))
         IN  RoundF(a.s, IF up THEN BAdd(q, <<1>>) ELSE q, 0)

\* numpy.round(a, 2): rint(a * 100.0) / 100.0
Round2(a) == FDiv(FRint(FMul(a, FromInt(100))), FromInt(100))

(***************************************************************************)
(* NutritionVector and Product.                                            *)
(***************************************************************************)
NutritionVector(fat, carbs, protein) == [fat |-> fat, carbs |-> carbs, protein |-> protein]

\* 9 * self.fat + 4 * self.carbs + 4 * self.protein
calories(v) ==
    FAdd(FAdd(FMul(FromInt(9), v.fat), FMul(FromInt(4), v.carbs)), FMul(FromInt(4), v.protein))

\* scale as it would be with the protein left out of the scaling
scaleFatAndCarbs(v, factor) ==
    NutritionVector(FMul(v.fat, factor), FMul(v.carbs, factor), v.protein)

scale(v, factor) ==
    NutritionVector(FMul(v.fat, factor), FMul(v.carbs, factor), FMul(v.protein, factor))

\* Product.__init__ as it would be scaling by serving_size instead of 1/serving_size
ProductTimesServing(r) ==
    [name               |-> r.name,
     serving_size       |-> FromInt(r.serving_size),
     servings_available |-> FromInt(r.servings_available),
     nutrition          |-> scale(NutritionVector(FromInt(r.nutrients[1]), FromInt(r.nutrients[2]),
                                                  FromInt(r.nutrients[3])),
                                  FromInt(r.serving_size))]

\* Product.__init__ for serving_size # 0; 1/serving_size raises ZeroDivisionError for 0
Product(r) ==
    [name               |-> r.name,
     serving_size       |-> FromInt(r.serving_size),
     servings_available |-> FromInt(r.servings_available),
     nutrition          |-> scale(NutritionVector(FromInt(r.nutrients[1]), FromInt(r.nutrients[2]),
                                                  FromInt(r.nutrients[3])),
                                  FDiv(FromInt(1), FromInt(r.serving_size)))]

\* Product.load_from_json: one Product per record, in input order
load_from_json(inv) == [i \in DOMAIN inv |-> Product(inv[i])]

(***************************************************************************)
(* The inputs: inventory.json is a list of at most MaxProducts records     *)
(* with integer fields, objective.json a triple of numbers.                *)
(***************************************************************************)
MaxProducts == 2
MaxGrams == 3

Names == {"a", "b"}

\* serving_size, servings_available
Stock == {<<3, 1>>, <<3, 0>>, <<0, 1>>, <<-1, 0>>}

Nutrients == {<<2, 4, 7>>}

Records ==
    {[name |-> n, serving_size |-> st[1], servings_available |-> st[2], nutrients |-> nu] :
        n \in Names, st \in Stock, nu \in Nutrients}

Inventories == UNION {[1..n -> Records] : n \in 0..MaxProducts}

\* the targets: nothing, one serving of the product, one gram of it at 3 grams a serving
Objectives ==
    {NutritionVector(Zero, Zero, Zero),
     NutritionVector(FromInt(2), FromInt(4), FromInt(7)),
     scale(NutritionVector(FromInt(2), FromInt(4), FromInt(7)), FDiv(FromInt(1), FromInt(3)))}

(***************************************************************************)
(* The pulp objects optimize() builds.  An LpAffineExpression is the       *)
(* sequence of its (variable, coefficient) terms in insertion order, its   *)
(* constant being 0; a dict is a function on its keys.                     *)
(***************************************************************************)
\* Python's None, the varValue of a variable the solver gave no value
None == [none |-> TRUE]

NameSet(ps) == {ps[i].name : i \in DOMAIN ps}

\* the index of the last product of the list with this name
LastOf(ps, n) == CHOOSE i \in DOMAIN ps : ps[i].name = n /\ \A j \in DOMAIN ps : ps[j].name = n => j <= i

\* for p in products: d[p.name] = f(p)  (a later product overwrites an earlier one of its name)
FatCoefs(ps) == [n \in NameSet(ps) |-> ps[LastOf(ps, n)].nutrition.fat]
CarbCoefs(ps) == [n \in NameSet(ps) |-> ps[LastOf(ps, n)].nutrition.carbs]
ProteinCoefs(ps) == [n \in NameSet(ps) |-> ps[LastOf(ps, n)].nutrition.protein]
\* grams_available as it would be with servings_available left out of the product
GramsOfOneServing(ps) == [n \in NameSet(ps) |-> ps[LastOf(ps, n)].serving_size]

GramsAvailable(ps) ==
    [n \in NameSet(ps) |-> FMul(ps[LastOf(ps, n)].serving_size, ps[LastOf(ps, n)].servings_available)]

\* LpAffineExpression.addterm: a variable already in the expression has its coefficient added to
AddTerm(expr, var, coef) ==
    IF \E i \in DOMAIN expr : expr[i].var = var
    THEN [i \in DOMAIN expr |->
            IF expr[i].var = var THEN [var |-> var, coef |-> FAdd(expr[i].coef, coef)] ELSE expr[i]]
    ELSE Append(expr, [var |-> var, coef |-> coef])

\* lpSum([coefs[p.name] * mixture_vars[p.name] for p in products])
RECURSIVE LpSumTo(_, _, _)
LpSumTo(coefs, ps, n) ==
    IF n = 0 THEN <<>>
    ELSE AddTerm(LpSumTo(coefs, ps, n - 1), ps[n].name, coefs[ps[n].name])

\* lpSum as it would be over products[1:]
lpSumFromSecond(coefs, ps) ==
    IF ps = <<>> THEN <<>> ELSE LpSumTo(coefs, Tail(ps), Len(ps) - 1)

lpSum(coefs, ps) == LpSumTo(coefs, ps, Len(ps))

\* pulp.value(expr): the constant 0 plus varValue * coefficient, term by term; None if a value is None
RECURSIVE ValueTo(_, _, _)
ValueTo(expr, vals, n) ==
    IF n = 0 THEN Zero
    ELSE LET s == ValueTo(expr, vals, n - 1)
         IN  IF s = None \/ vals[expr[n].var] = None THEN None
             ELSE FAdd(s, FMul(vals[expr[n].var], expr[n].coef))

value(expr, vals) == ValueTo(expr, vals, Len(expr))

Constraint(name, expr, sense, rhs) == [name |-> name, expr |-> expr, sense |-> sense, rhs |-> rhs]

\* prob += fat_sum == target_macros.fat, 'Fat target' and the two like it
TargetConstraints(fs, cs, prs, target) ==
    <<Constraint(<<"Fat target">>, fs, "==", target.fat),
      Constraint(<<"Carbs target">>, cs, "==", target.carbs),
      Constraint(<<"Protein target">>, prs, "==", target.protein)>>

\* prob += constraint, name: LpProblem.addConstraint raises PulpError for a name already in use
Overlaps(cons, name) == \E i \in DOMAIN cons : cons[i].name = name

\* the loop of lines 58-62 over products[from..]; err is set where addConstraint raises
RECURSIVE AddBounds(_, _, _, _)
AddBounds(cons, avail, ps, from) ==
    IF from > Len(ps) THEN [cons |-> cons, err |-> FALSE]
    ELSE LET n     == ps[from].name
             var   == <<[var |-> n, coef |-> FromInt(1)]>>
             upper == Constraint(<<avail[n], "gram upper bound for", n>>, var, "<=", avail[n])
             lower == Constraint(<<Zero, "gram lower bound for", n>>, var, ">=", Zero)
         IN  IF Overlaps(cons, upper.name) THEN [cons |-> cons, err |-> TRUE]
             ELSE IF Overlaps(Append(cons, upper), lower.name)
                  THEN [cons |-> Append(cons, upper), err |-> TRUE]
                  ELSE AddBounds(Append(Append(cons, upper), lower), avail, ps, from + 1)

(***************************************************************************)
(* The solver behind prob.solve().  It is not part of the program.  The    *)
(* model lets it return, with status Optimal, any assignment of MaxGrams   *)
(* or fewer whole grams per variable that satisfies every constraint       *)
(* within the solver's feasibility tolerance; when there is none, any      *)
(* other status, with the variables left without a value or all left at    *)
(* the value it stopped at.                                                *)
(***************************************************************************)
LpStatus == {"Optimal", "Not Solved", "Infeasible", "Unbounded", "Undefined"}

Grid == {FromInt(g) : g \in 0..MaxGrams}

FNeg(a) == [a EXCEPT !.s = -a.s]
FAbs(a) == [a EXCEPT !.s = IF a.s = 0 THEN 0 ELSE 1]

\* the solver's primal feasibility tolerance, 1e-7
FeasibilityTolerance == FDiv(FromInt(1), FromInt(10000000))

Satisfies(c, vals) ==
    LET v == value(c.expr, vals)
    IN  CASE c.sense = "==" -> FLe(FAbs(FAdd(v, FNeg(c.rhs))), FeasibilityTolerance)
          [] c.sense = "<=" -> FLe(v, FAdd(c.rhs, FeasibilityTolerance))
          [] c.sense = ">=" -> FLe(FAdd(c.rhs, FNeg(FeasibilityTolerance)), v)

\* the assignments the solver may return as Optimal
Solutions(vars, cons) ==
    {vals \in [vars -> Grid] : \A i \in DOMAIN cons : Satisfies(cons[i], vals)}

Feasible(vars, cons) == Solutions(vars, cons) # {}

\* what the variables may hold after a solve that found no solution
Leftovers(vars) == {[n \in vars |-> v] : v \in {None, FromInt(-1)} \cup Grid}

(***************************************************************************)
(* The interpretation of the solver's values: lines 67-97.                 *)
(***************************************************************************)
\* the record of lines 69-79 for product p with varValue grams
Record(p, grams) ==
    [Product  |-> p.name,
     Grams    |-> grams,
     Servings |-> FDiv(grams, p.serving_size),
     Fat      |-> scale(p.nutrition, grams).fat,
     Carbs    |-> scale(p.nutrition, grams).carbs,
     Protein  |-> scale(p.nutrition, grams).protein,
     Calories |-> calories(scale(p.nutrition, grams))]

RecordsOf(ps, vals) == [i \in DOMAIN ps |-> Record(ps[i], vals[ps[i].name])]

\* DataFrame.round(2) on a row of the per-product report: every numeric column
RoundRow(r) ==
    [Product  |-> r.Product,
     Grams    |-> Round2(r.Grams),
     Servings |-> Round2(r.Servings),
     Fat      |-> Round2(r.Fat),
     Carbs    |-> Round2(r.Carbs),
     Protein  |-> Round2(r.Protein),
     Calories |-> Round2(r.Calories)]

\* the filter as it would be with >= for >
NotNegative(r) == FLe(Zero, r.Grams)

Positive(r) == FLt(Zero, r.Grams)

\* df[lambda x: x['Grams'] > 0].round(2)
Filtered(recs) ==
    LET kept == SelectSeq(recs, Positive)
    IN  [i \in DOMAIN kept |-> RoundRow(kept[i])]

SummaryRow(grams, targeted) == [Grams |-> Round2(grams), Targeted |-> Round2(targeted)]

\* the summary as it would be with the carbs total taken from fat_sum
SummaryFatForCarbs(fs, cs, prs, vals, target) ==
    LET summary_nutrition == NutritionVector(value(fs, vals), value(fs, vals), value(prs, vals))
    IN  [Fat      |-> SummaryRow(summary_nutrition.fat, target.fat),
         Carbs    |-> SummaryRow(summary_nutrition.carbs, target.carbs),
         Protein  |-> SummaryRow(summary_nutrition.protein, target.protein),
         Calories |-> SummaryRow(calories(summary_nutrition), calories(target))]

\* lines 89-96: the achieved totals are pulp.value of the three sums
SummaryOf(fs, cs, prs, vals, target) ==
    LET summary_nutrition == NutritionVector(value(fs, vals), value(cs, vals), value(prs, vals))
    IN  [Fat      |-> SummaryRow(summary_nutrition.fat, target.fat),
         Carbs    |-> SummaryRow(summary_nutrition.carbs, target.carbs),
         Protein  |-> SummaryRow(summary_nutrition.protein, target.protein),
         Calories |-> SummaryRow(calories(summary_nutrition), calories(target))]

(***************************************************************************)
(* The run of main(): load, build, solve, interpret, report.               *)
(***************************************************************************)
VARIABLES pc, inventory, objective, products, target_macros,
          fat_coefs, carb_coefs, protein_coefs, grams_available,
          mixture_vars, fat_sum, carb_sum, protein_sum, constraints,
          status, varValue, records, df_filtered, df_summary, error

vars == <<pc, inventory, objective, products, target_macros,
          fat_coefs, carb_coefs, protein_coefs, grams_available,
          mixture_vars, fat_sum, carb_sum, protein_sum, constraints,
          status, varValue, records, df_filtered, df_summary, error>>

input == <<inventory, objective>>
coefs == <<fat_coefs, carb_coefs, protein_coefs, grams_available>>
sums == <<fat_sum, carb_sum, protein_sum>>
reports == <<df_filtered, df_summary>>

Init ==
    /\ pc = "main"
    /\ inventory \in Inventories
    /\ objective \in Objectives
    /\ products = <<>>
    /\ target_macros = None
    /\ fat_coefs = <<>> /\ carb_coefs = <<>> /\ protein_coefs = <<>> /\ grams_available = <<>>
    /\ mixture_vars = {}
    /\ fat_sum = <<>> /\ carb_sum = <<>> /\ protein_sum = <<>>
    /\ constraints = <<>>
    /\ status = "Not Solved"
    /\ varValue = <<>>
    /\ records = <<>>
    /\ df_filtered = None
    /\ df_summary = None
    /\ error = None

\* main, lines 101-102: a record with serving_size 0 makes Product.__init__ raise
Load ==
    /\ pc = "main"
    /\ IF \E i \in DOMAIN inventory : inventory[i].serving_size = 0
       THEN /\ pc' = "error"
            /\ error' = [raised |-> "ZeroDivisionError"]
            /\ UNCHANGED <<products, target_macros>>
       ELSE /\ pc' = "optimize"
            /\ products' = load_from_json(inventory)
            /\ target_macros' = objective
            /\ UNCHANGED error
    /\ UNCHANGED <<input, coefs, mixture_vars, sums, constraints, status, varValue, records, reports>>

\* lines 36-45
BuildCoefs ==
    /\ pc = "optimize"
    /\ pc' = "vars"
    /\ fat_coefs' = FatCoefs(products)
    /\ carb_coefs' = CarbCoefs(products)
    /\ protein_coefs' = ProteinCoefs(products)
    /\ grams_available' = GramsAvailable(products)
    /\ UNCHANGED <<input, products, target_macros, mixture_vars, sums, constraints, status,
                   varValue, records, reports, error>>

\* line 47: LpVariable.dicts, one variable per name, no value yet
MakeVars ==
    /\ pc = "vars"
    /\ pc' = "sums"
    /\ mixture_vars' = NameSet(products)
    /\ varValue' = [n \in NameSet(products) |-> None]
    /\ UNCHANGED <<input, products, target_macros, coefs, sums, constraints, status,
                   records, reports, error>>

\* lines 49-51
BuildSums ==
    /\ pc = "sums"
    /\ pc' = "targets"
    /\ fat_sum' = lpSum(fat_coefs, products)
    /\ carb_sum' = lpSum(carb_coefs, products)
    /\ protein_sum' = lpSum(protein_coefs, products)
    /\ UNCHANGED <<input, products, target_macros, coefs, mixture_vars, constraints, status,
                   varValue, records, reports, error>>

\* lines 53-56
AddTargets ==
    /\ pc = "targets"
    /\ pc' = "bounds"
    /\ constraints' = TargetConstraints(fat_sum, carb_sum, protein_sum, target_macros)
    /\ UNCHANGED <<input, products, target_macros, coefs, mixture_vars, sums, status,
                   varValue, records, reports, error>>

\* lines 58-62
AddBoundConstraints ==
    /\ pc = "bounds"
    /\ LET r == AddBounds(constraints, grams_available, products, 1)
       IN  /\ constraints' = r.cons
           /\ pc' = IF r.err THEN "error" ELSE "solve"
           /\ error' = IF r.err THEN [raised |-> "PulpError"] ELSE error
    /\ UNCHANGED <<input, products, target_macros, coefs, mixture_vars, sums, status,
                   varValue, records, reports>>

\* line 64, the solver finding a solution
SolveOptimal ==
    /\ pc = "solve"
    /\ \E vals \in Solutions(mixture_vars, constraints) :
          /\ status' = "Optimal"
          /\ varValue' = vals
    /\ pc' = "interpret"
    /\ UNCHANGED <<input, products, target_macros, coefs, mixture_vars, sums, constraints,
                   records, reports, error>>

\* line 64, the solver finding none
SolveOther ==
    /\ pc = "solve"
    /\ ~Feasible(mixture_vars, constraints)
    /\ status' \in LpStatus \ {"Optimal"}
    /\ varValue' \in Leftovers(mixture_vars)
    /\ pc' = "interpret"
    /\ UNCHANGED <<input, products, target_macros, coefs, mixture_vars, sums, constraints,
                   records, reports, error>>

\* lines 67-79: grams / p.serving_size raises TypeError for a grams of None
Interpret ==
    /\ pc = "interpret"
    /\ IF \E i \in DOMAIN products : varValue[products[i].name] = None
       THEN /\ pc' = "error"
            /\ error' = [raised |-> "TypeError"]
            /\ UNCHANGED records
       ELSE /\ pc' = "report"
            /\ records' = RecordsOf(products, varValue)
            /\ UNCHANGED error
    /\ UNCHANGED <<input, products, target_macros, coefs, mixture_vars, sums, constraints,
                   status, varValue, reports>>

\* lines 81-86
Report ==
    /\ pc = "report"
    /\ pc' = "summary"
    /\ df_filtered' = Filtered(records)
    /\ UNCHANGED <<input, products, target_macros, coefs, mixture_vars, sums, constraints,
                   status, varValue, records, df_summary, error>>

\* lines 88-97
Summary ==
    /\ pc = "summary"
    /\ pc' = "done"
    /\ df_summary' = SummaryOf(fat_sum, carb_sum, protein_sum, varValue, target_macros)
    /\ UNCHANGED <<input, products, target_macros, coefs, mixture_vars, sums, constraints,
                   status, varValue, records, df_filtered, error>>

Next ==
    \/ Load
    \/ BuildCoefs
    \/ MakeVars
    \/ BuildSums
    \/ AddTargets
    \/ AddBoundConstraints
    \/ SolveOptimal
    \/ SolveOther
    \/ Interpret
    \/ Report
    \/ Summary

Spec == Init /\ [][Next]_vars

(***************************************************************************)
(* The properties.                                                         *)
(***************************************************************************)
Solved == status = "Optimal"
AfterSolve == pc \in {"interpret", "report", "summary", "done"}

UniqueNames(inv) == \A i, j \in DOMAIN inv : inv[i].name = inv[j].name => i = j

\* 2^-50
Tolerance == [s |-> 1, m |-> <<0, 0, 0, 128>>, e |-> -102]

\* a is b up to a relative error of 2^-50
Close(a, b) == FLe(FAbs(FAdd(a, FNeg(b))), FMul(Tolerance, FAbs(b)))

\* C1: after a solve with a status other than Optimal the run fails and nothing is
\* interpreted: no record is built, no report produced, the run never reaches its end.
C1_NoInterpretationUnlessOptimal ==
    ~Solved => /\ pc \notin {"report", "summary", "done"}
               /\ records = <<>>
               /\ df_filtered = None
               /\ df_summary = None

\* the sum over the products, in order, of grams * the nutrient per gram
RECURSIVE AchievedTo(_, _, _, _)
AchievedTo(ps, vals, F(_), n) ==
    IF n = 0 THEN Zero
    ELSE FAdd(AchievedTo(ps, vals, F, n - 1), FMul(vals[ps[n].name], F(ps[n].nutrition)))

Achieved(ps, vals, F(_)) == AchievedTo(ps, vals, F, Len(ps))

FatOf(v) == v.fat
CarbsOf(v) == v.carbs
ProteinOf(v) == v.protein

\* C2 as stated: with unique names, a solved model's grams meet all three targets at once:
\* the sums of grams * fat, carbs and protein per gram equal the target's fat, carbs and protein.
C2_SumsEqualTargets ==
    (AfterSolve /\ Solved /\ UniqueNames(inventory)) =>
        /\ Achieved(products, varValue, FatOf) = target_macros.fat
        /\ Achieved(products, varValue, CarbsOf) = target_macros.carbs
        /\ Achieved(products, varValue, ProteinOf) = target_macros.protein

\* 1e-6
NumericTolerance == FDiv(FromInt(1), FromInt(1000000))

Within(a, b) == FLe(FAbs(FAdd(a, FNeg(b))), NumericTolerance)

\* C2, amended: with unique names, the three sums of a solved model are within 1e-6 of the
\* target's fat, carbs and protein.
C2_SumsMeetTargets ==
    (AfterSolve /\ Solved /\ UniqueNames(inventory)) =>
        /\ Within(Achieved(products, varValue, FatOf), target_macros.fat)
        /\ Within(Achieved(products, varValue, CarbsOf), target_macros.carbs)
        /\ Within(Achieved(products, varValue, ProteinOf), target_macros.protein)

C2_Witness ==
    /\ pc = "done" /\ Solved /\ Len(products) = 2
    /\ \A i \in DOMAIN products : FLt(Zero, varValue[products[i].name])

ModelVars(inv) == NameSet(load_from_json(inv))

ModelConstraints(inv, target) ==
    LET ps == load_from_json(inv)
    IN  AddBounds(TargetConstraints(lpSum(FatCoefs(ps), ps), lpSum(CarbCoefs(ps), ps),
                                    lpSum(ProteinCoefs(ps), ps), target),
                  GramsAvailable(ps), ps, 1).cons

\* the inventory with one more serving of product i available
Widened(inv, i) == [inv EXCEPT ![i].servings_available = @ + 1]

\* C4: a feasible model stays feasible when one product's servings_available is increased.
C4_FeasibilityMonotone ==
    (pc = "solve" /\ Feasible(mixture_vars, constraints)) =>
        \A i \in DOMAIN inventory :
            Feasible(ModelVars(Widened(inventory, i)),
                     ModelConstraints(Widened(inventory, i), objective))

\* C5: an inventory with a repeated name is rejected before anything is built: no dict entry,
\* no variable, no constraint, no solve.
C5_DuplicateNamesRejected ==
    ~UniqueNames(inventory) =>
        /\ pc \in {"main", "error"}
        /\ fat_coefs = <<>> /\ carb_coefs = <<>> /\ protein_coefs = <<>> /\ grams_available = <<>>
        /\ mixture_vars = {}
        /\ constraints = <<>>
        /\ status = "Not Solved"

\* C6: a record with serving_size <= 0 fails construction: no Product list reaches optimize().
C6_NonPositiveServingSizeRejected ==
    (\E i \in DOMAIN inventory : inventory[i].serving_size <= 0) =>
        /\ pc \in {"main", "error"}
        /\ products = <<>>

\* 9 * fat + 4 * carbs + 4 * protein
Kcal(fat, carbs, protein) ==
    FAdd(FAdd(FMul(FromInt(9), fat), FMul(FromInt(4), carbs)), FMul(FromInt(4), protein))

\* C7 as stated: the calories of a vector scaled by k equal k * the vector's calories, for the
\* per-gram vector of each product scaled by its grams in the record built for it.
C7_CaloriesLinear ==
    pc = "report" =>
        \A i \in DOMAIN records :
            records[i].Calories =
                FMul(records[i].Grams,
                     Kcal(products[i].nutrition.fat, products[i].nutrition.carbs,
                          products[i].nutrition.protein))

\* C7, amended: the calories of the scaled vector are 9 * fat + 4 * carbs + 4 * protein of its
\* fields and are k * the vector's calories up to a relative error of 2^-50; scale leaves the
\* vector it is applied to unchanged.
C7_CaloriesLinearUpToRounding ==
    pc = "report" =>
        /\ products = load_from_json(inventory)
        /\ \A i \in DOMAIN records :
              /\ records[i].Calories = Kcal(records[i].Fat, records[i].Carbs, records[i].Protein)
              /\ Close(records[i].Calories,
                       FMul(records[i].Grams,
                            Kcal(products[i].nutrition.fat, products[i].nutrition.carbs,
                                 products[i].nutrition.protein)))

C7_Witness ==
    /\ pc = "report"
    /\ \E i \in DOMAIN records : records[i].Grams = FromInt(3) /\ inventory[i].serving_size = 3

\* the per-serving vector of an input record
PerServing(r) ==
    NutritionVector(FromInt(r.nutrients[1]), FromInt(r.nutrients[2]), FromInt(r.nutrients[3]))

\* C8 as stated: the per-gram vector of a product with serving_size > 0, scaled by serving_size,
\* equals the per-serving vector it was constructed from.
C8_ScaleRoundTrip ==
    pc = "optimize" =>
        \A i \in DOMAIN products :
            inventory[i].serving_size > 0 =>
                scale(products[i].nutrition, products[i].serving_size) = PerServing(inventory[i])

\* C8, amended: it equals the per-serving vector in fat, carbs and protein up to a relative
\* error of 2^-50.
C8_ScaleRoundTripUpToRounding ==
    pc = "optimize" =>
        \A i \in DOMAIN products :
            inventory[i].serving_size > 0 =>
                LET back == scale(products[i].nutrition, products[i].serving_size)
                    n    == PerServing(inventory[i])
                IN  /\ Close(back.fat, n.fat)
                    /\ Close(back.carbs, n.carbs)
                    /\ Close(back.protein, n.protein)

C8_Witness ==
    /\ pc = "optimize"
    /\ \E i \in DOMAIN products : inventory[i].serving_size = 3

\* the indices of the products with grams > 0, in input order
PositiveIndices(ps, vals) ==
    SelectSeq([i \in DOMAIN ps |-> i], LAMBDA i : FLt(Zero, vals[ps[i].name]))

\* the row the claim describes for product p at grams g
ExactRow(p, g) ==
    [Product  |-> p.name,
     Grams    |-> g,
     Servings |-> FDiv(g, p.serving_size),
     Fat      |-> FMul(p.nutrition.fat, g),
     Carbs    |-> FMul(p.nutrition.carbs, g),
     Protein  |-> FMul(p.nutrition.protein, g),
     Calories |-> Kcal(FMul(p.nutrition.fat, g), FMul(p.nutrition.carbs, g),
                       FMul(p.nutrition.protein, g))]

\* the same row with every number rounded to 2 decimals
RoundedRow(p, g) ==
    LET r == ExactRow(p, g)
    IN  [Product  |-> r.Product,
         Grams    |-> Round2(r.Grams),
         Servings |-> Round2(r.Servings),
         Fat      |-> Round2(r.Fat),
         Carbs    |-> Round2(r.Carbs),
         Protein  |-> Round2(r.Protein),
         Calories |-> Round2(r.Calories)]

\* C9 as stated: the per-product report of a solved model has one row for each product with
\* grams > 0 and none for the others, in input order, with servings grams / serving_size and
\* fat, carbs, protein and calories those of the per-gram vector scaled by grams.
C9_ReportRows ==
    (pc \in {"summary", "done"} /\ Solved) =>
        LET idx == PositiveIndices(products, varValue)
        IN  df_filtered =
                [j \in DOMAIN idx |-> ExactRow(products[idx[j]], varValue[products[idx[j]].name])]

\* C9, amended: the same rows, each number rounded to 2 decimals.
C9_ReportRowsRounded ==
    (pc \in {"summary", "done"} /\ Solved) =>
        LET idx == PositiveIndices(products, varValue)
        IN  df_filtered =
                [j \in DOMAIN idx |-> RoundedRow(products[idx[j]], varValue[products[idx[j]].name])]

C9_Witness ==
    /\ pc = "done" /\ Solved
    /\ Len(products) = 2 /\ Len(df_filtered) = 1
    /\ df_filtered[1].Product = products[2].name

\* the sum of a column over all the records, in order
RECURSIVE TotalTo(_, _, _)
TotalTo(recs, F(_), n) ==
    IF n = 0 THEN Zero ELSE FAdd(TotalTo(recs, F, n - 1), F(recs[n]))

Total(recs, F(_)) == TotalTo(recs, F, Len(recs))

FatColumn(r) == r.Fat
CarbsColumn(r) == r.Carbs
ProteinColumn(r) == r.Protein

\* C10 as stated: the summary of a solved model shows, for each macro, the sum over all the
\* records of that macro's grams, as calories 9 * fat + 4 * carbs + 4 * protein of these sums,
\* and as targets the target's fat, carbs, protein and calories unchanged.
C10_Summary ==
    (pc = "done" /\ Solved) =>
        LET f == Total(records, FatColumn)
            c == Total(records, CarbsColumn)
            p == Total(records, ProteinColumn)
        IN  df_summary =
                [Fat      |-> [Grams |-> f, Targeted |-> target_macros.fat],
                 Carbs    |-> [Grams |-> c, Targeted |-> target_macros.carbs],
                 Protein  |-> [Grams |-> p, Targeted |-> target_macros.protein],
                 Calories |-> [Grams |-> Kcal(f, c, p),
                               Targeted |-> Kcal(target_macros.fat, target_macros.carbs,
                                                 target_macros.protein)]]

\* C10, amended: the same eight numbers, each rounded to 2 decimals.
C10_SummaryRounded ==
    (pc = "done" /\ Solved) =>
        LET f == Total(records, FatColumn)
            c == Total(records, CarbsColumn)
            p == Total(records, ProteinColumn)
        IN  df_summary =
                [Fat      |-> [Grams |-> Round2(f), Targeted |-> Round2(target_macros.fat)],
                 Carbs    |-> [Grams |-> Round2(c), Targeted |-> Round2(target_macros.carbs)],
                 Protein  |-> [Grams |-> Round2(p), Targeted |-> Round2(target_macros.protein)],
                 Calories |-> [Grams |-> Round2(Kcal(f, c, p)),
                               Targeted |-> Round2(Kcal(target_macros.fat, target_macros.carbs,
                                                        target_macros.protein))]]

C10_Witness ==
    /\ pc = "done" /\ Solved
    /\ \E i, j \in DOMAIN records :
          /\ records[i].Grams = Zero
          /\ FLt(Zero, records[j].Fat)

====
